---- MODULE Spec2Model ----
(***************************************************************************)
(* Model of xo/pgdesc's pattern compiler: processSQLNamePattern,           *)
(* parsePattern and stringLiteral.                                         *)
(*                                                                         *)
(* A Go string is a sequence of bytes.  A byte is written as a one         *)
(* character TLA+ string when it is ASCII ("a", "\"", "\n") and as the     *)
(* token "xHH" when it is the byte 0xHH >= 0x80.                           *)
(***************************************************************************)
EXTENDS Integers, Sequences, FiniteSets, TLC

VARIABLES
    w,               \* the sink (io.Writer): everything written to it so far
    pattern,         \* argument pattern
    haveWhere,       \* argument haveWhere (the callee reassigns it)
    forceEscape,     \* argument forceEscape
    schemavar,       \* argument schemavar
    namevar,         \* argument namevar
    altnamevar,      \* argument altnamevar
    visibilityrule,  \* argument visibilityrule
    addedClause,     \* local addedClause, the return value
    schemabuf,       \* local schemabuf
    namebuf,         \* local namebuf
    i,               \* parsePattern's cursor
    inquotes,        \* parsePattern's inquotes
    pc,              \* "idle" | "scan" | "done" (processSQLNamePattern's position)
    callerHaveWhere, \* the haveWhere value the caller holds for its next call
    startWhere,      \* the haveWhere value the caller started its query with
    mark,            \* length of the sink when the current call began
    calls,           \* calls completed on the current sink
    s,               \* stringLiteral's argument
    lit,             \* stringLiteral's result
    qpc              \* "in" | "out" (stringLiteral's position)

vars == <<w, pattern, haveWhere, forceEscape, schemavar, namevar, altnamevar,
          visibilityrule, addedClause, schemabuf, namebuf, i, inquotes, pc,
          callerHaveWhere, startWhere, mark, calls, s, lit, qpc>>

callVars == <<w, pattern, haveWhere, forceEscape, schemavar, namevar, altnamevar,
              visibilityrule, addedClause, schemabuf, namebuf, i, inquotes, pc,
              callerHaveWhere, startWhere, mark, calls>>

quoteVars == <<s, lit, qpc>>

----------------------------------------------------------------------------
(* Bounds *)

\* longest generated pattern
MaxLen == 3

\* calls chained on one sink
MaxCalls == 2

\* longest generated stringLiteral argument
MaxText == 3

----------------------------------------------------------------------------
(* Text helpers *)

RECURSIVE SeqsUpTo(_, _)
SeqsUpTo(A, n) ==
    IF n = 0 THEN {<<>>}
    ELSE LET shorter == SeqsUpTo(A, n - 1)
         IN  shorter \cup {Append(t, a) : t \in {u \in shorter : Len(u) = n - 1}, a \in A}

StartsWithAt(t, k, p) ==
    /\ k + Len(p) - 1 <= Len(t)
    /\ \A j \in 1..Len(p) : t[k + j - 1] = p[j]

StartsWith(t, p) == StartsWithAt(t, 1, p)

EndsWith(t, p) == Len(p) <= Len(t) /\ StartsWithAt(t, Len(t) - Len(p) + 1, p)

From(t, k) == SubSeq(t, k, Len(t))

----------------------------------------------------------------------------
(* Text constants of the source *)

WHERE == <<"W", "H", "E", "R", "E", " ">>

AND == <<" ", " ", "A", "N", "D", " ">>

PREFIX == <<"^", "(">>

CLOSE == <<")", "$">>

STARREGEX == <<"^", "(", ".", "*", ")", "$">>

OPERATOR ==
    <<" ", "O", "P", "E", "R", "A", "T", "O", "R", "(", "p", "g", "_", "c", "a", "t",
      "a", "l", "o", "g", ".", "~", ")", " ">>

OR == <<"\n", " ", " ", " ", " ", " ", " ", " ", " ", "O", "R", " ">>

NL == <<"\n">>

\* the zero byte `next` holds at the last character
NUL == "x00"

\* the characters of strings.ContainsRune("|*+?()[]{}.^$\\", ...)
SPECIAL == {"|", "*", "+", "?", "(", ")", "[", "]", "{", "}", ".", "^", "$", "\\"}

----------------------------------------------------------------------------
(* Characters: unicode.IsUpper, strings.ToLower, utf8.DecodeRuneInString *)

UpperLetters ==
    <<"A", "B", "C", "D", "E", "F", "G", "H", "I", "J", "K", "L", "M",
      "N", "O", "P", "Q", "R", "S", "T", "U", "V", "W", "X", "Y", "Z">>

LowerLetters ==
    <<"a", "b", "c", "d", "e", "f", "g", "h", "i", "j", "k", "l", "m",
      "n", "o", "p", "q", "r", "s", "t", "u", "v", "w", "x", "y", "z">>

\* bytes >= 0x80 the model's inputs use: 0xC3 leads a two-byte character,
\* 0xA9 continues one (0xC3 0xA9 is U+00E9)
LeadBytes == {"xC3"}

ContBytes == {"xA9", "xA3"}

HighBytes == LeadBytes \cup ContBytes \cup {"xEF", "xBF", "xBD"}

\* unicode.IsUpper(rune(ch)) of a byte: the byte is read as the code point of
\* the same number, so 0xC3 is U+00C3, an upper case letter
IsUpper(ch) ==
    \/ \E k \in 1..Len(UpperLetters) : UpperLetters[k] = ch
    \/ ch = "xC3"

\* strings.ToLower(string(ch)) of a byte that IsUpper: string(ch) is the
\* UTF-8 text of code point ch, so 0xC3 gives U+00E3, the bytes 0xC3 0xA3
ToLower(ch) ==
    IF ch = "xC3" THEN <<"xC3", "xA3">>
    ELSE <<LowerLetters[CHOOSE k \in 1..Len(UpperLetters) : UpperLetters[k] = ch]>>

\* utf8.DecodeRuneInString(p[k:]) followed by string(r): the bytes written
\* and the width n.  An invalid byte decodes to U+FFFD with width 1.
DecodeRune(p, k) ==
    LET ch == p[k + 1]
    IN  IF ch \notin HighBytes THEN [text |-> <<ch>>, n |-> 1]
        ELSE IF ch \in LeadBytes /\ k + 2 <= Len(p) /\ p[k + 2] \in ContBytes
             THEN [text |-> <<ch, p[k + 2]>>, n |-> 2]
        ELSE [text |-> <<"xEF", "xBF", "xBD">>, n |-> 1]

----------------------------------------------------------------------------
(* parsePattern: one operator per case of the switch.  A scan state is     *)
(* [i, inquotes, schemabuf, namebuf]; every case ends with its own i++     *)
(* and is followed by the for statement's i++.                             *)

ByteAt(p, k) == p[k + 1]

NextByte(p, k) == IF k < Len(p) - 1 THEN p[k + 2] ELSE NUL

\* the loop running until the cursor equals the length
LoopCond_NotEqual(k, n) == k # n

\* the for statement's condition, i < len(pattern)
LoopCond(k, n) == k < n

\* the indexes of p one iteration reads at cursor k: pattern[i], pattern[i+1]
\* under its guard, and the start of the slice pattern[i:]
IndexesRead(p, k) == {k} \cup (IF k < Len(p) - 1 THEN {k + 1} ELSE {})

\* the for statement's post statement
LoopIncr(st) == [st EXCEPT !.i = @ + 1]

\* case ch == '"'; fmt.Fprint of the rune '"' writes its number, 34
CaseQuote(p, st) ==
    IF st.inquotes /\ NextByte(p, st.i) = "\""
    THEN [st EXCEPT !.namebuf = @ \o <<"3", "4">>, !.i = @ + 2]
    ELSE [st EXCEPT !.inquotes = ~@, !.i = @ + 1]

CaseUpper(p, st) ==
    [st EXCEPT !.namebuf = @ \o ToLower(ByteAt(p, st.i)), !.i = @ + 1]

CaseStar(p, st) ==
    [st EXCEPT !.namebuf = @ \o <<".", "*">>, !.i = @ + 1]

CaseQuestion(p, st) ==
    [st EXCEPT !.namebuf = @ \o <<".">>, !.i = @ + 1]

\* the separator case resetting namebuf to the empty text
CaseDot_NoPrefix(p, st) ==
    [st EXCEPT !.schemabuf = st.namebuf, !.namebuf = <<>>, !.i = @ + 1]

CaseDot(p, st) ==
    [st EXCEPT !.schemabuf = st.namebuf, !.namebuf = PREFIX, !.i = @ + 1]

CaseDollar(p, st) ==
    [st EXCEPT !.namebuf = @ \o <<"\\", "$">>, !.i = @ + 1]

\* Go parses  inquotes || forceEscape && ContainsRune(...)  as
\* inquotes || (forceEscape && ContainsRune(...))
NeedsBackslash(ch, inq, fe) == inq \/ (fe /\ ch \in SPECIAL)

CaseDefault(p, fe, st) ==
    LET ch == ByteAt(p, st.i)
        d == DecodeRune(p, st.i)
        esc == IF NeedsBackslash(ch, st.inquotes, fe) THEN <<"\\">> ELSE <<>>
    IN  [st EXCEPT !.namebuf = @ \o esc \o d.text, !.i = @ + d.n]

\* which case of the switch is taken, in the order the switch tests them
Which(p, st) ==
    LET ch == ByteAt(p, st.i)
    IN  IF ch = "\"" THEN "quote"
        ELSE IF ~st.inquotes /\ IsUpper(ch) THEN "upper"
        ELSE IF ~st.inquotes /\ ch = "*" THEN "star"
        ELSE IF ~st.inquotes /\ ch = "?" THEN "question"
        ELSE IF ~st.inquotes /\ ch = "." THEN "dot"
        ELSE IF ch = "$" THEN "dollar"
        ELSE "default"

\* one iteration of the for loop
ScanStep(p, fe, st) ==
    LET c == Which(p, st)
    IN  LoopIncr(IF c = "quote" THEN CaseQuote(p, st)
                 ELSE IF c = "upper" THEN CaseUpper(p, st)
                 ELSE IF c = "star" THEN CaseStar(p, st)
                 ELSE IF c = "question" THEN CaseQuestion(p, st)
                 ELSE IF c = "dot" THEN CaseDot(p, st)
                 ELSE IF c = "dollar" THEN CaseDollar(p, st)
                 ELSE CaseDefault(p, fe, st))

RECURSIVE ScanFrom(_, _, _)
ScanFrom(p, fe, st) ==
    IF LoopCond(st.i, Len(p)) THEN ScanFrom(p, fe, ScanStep(p, fe, st)) ELSE st

\* the buffers as processSQLNamePattern hands them to parsePattern
ScanStart == [i |-> 0, inquotes |-> FALSE, schemabuf |-> <<>>, namebuf |-> PREFIX]

\* the whole of parsePattern
parsePattern(p, fe) == ScanFrom(p, fe, ScanStart)

----------------------------------------------------------------------------
(* stringLiteral *)

\* the two lower case hex digits strconv writes for a byte >= 0x80
HexDigits(ch) ==
    CASE ch = "xC3" -> <<"c", "3">>
      [] ch = "xA9" -> <<"a", "9">>
      [] ch = "xA3" -> <<"a", "3">>
      [] ch = "xEF" -> <<"e", "f">>
      [] ch = "xBF" -> <<"b", "f">>
      [] ch = "xBD" -> <<"b", "d">>

\* strconv's escape of the character that starts at t[k]: the text written
\* and the number of bytes of t it stands for
QuoteRune(t, k) ==
    LET ch == t[k]
        two == k + 1 <= Len(t) /\ ch \in LeadBytes /\ t[k + 1] \in ContBytes
        three == k + 2 <= Len(t) /\ ch = "xEF" /\ t[k + 1] = "xBF" /\ t[k + 2] = "xBD"
    IN  IF ch = "\"" THEN [text |-> <<"\\", "\"">>, n |-> 1]
        ELSE IF ch = "\\" THEN [text |-> <<"\\", "\\">>, n |-> 1]
        ELSE IF ch = "\n" THEN [text |-> <<"\\", "n">>, n |-> 1]
        ELSE IF ch \notin HighBytes THEN [text |-> <<ch>>, n |-> 1]
        ELSE IF two THEN [text |-> <<"\\", "u", "0", "0", "e">> \o <<HexDigits(t[k + 1])[2]>>,
                          n |-> 2]
        ELSE IF three THEN [text |-> <<"\\", "u", "f", "f", "f", "d">>, n |-> 3]
        ELSE [text |-> <<"\\", "x">> \o HexDigits(ch), n |-> 1]

RECURSIVE QuoteFrom(_, _)
QuoteFrom(t, k) ==
    IF k > Len(t) THEN <<>>
    ELSE LET q == QuoteRune(t, k) IN q.text \o QuoteFrom(t, k + q.n)

\* strconv.QuoteToASCII
QuoteToASCII(t) == <<"\"">> \o QuoteFrom(t, 1) \o <<"\"">>

\* strings.Replace(t, "'", "''", -1)
RECURSIVE ReplaceQuotes(_)
ReplaceQuotes(t) ==
    IF t = <<>> THEN <<>>
    ELSE (IF Head(t) = "'" THEN <<"'", "'">> ELSE <<Head(t)>>) \o ReplaceQuotes(Tail(t))

\* stringLiteral without the strings.Replace
stringLiteral_NoDoubling(t) ==
    LET q == QuoteToASCII(t)
    IN  <<"E", "'">> \o SubSeq(q, 2, Len(q) - 1) \o <<"'">>

stringLiteral(t) ==
    LET q == QuoteToASCII(t)
    IN  <<"E", "'">> \o ReplaceQuotes(SubSeq(q, 2, Len(q) - 1)) \o <<"'">>

----------------------------------------------------------------------------
(* processSQLNamePattern: the blocks of its body.  An output state is      *)
(* [w, haveWhere, addedClause].                                            *)

Write(o, text) == [o EXCEPT !.w = @ \o text]

\* WHEREAND without the assignment to haveWhere
WHEREAND_KeepsHaveWhere(o) ==
    [Write(o, IF o.haveWhere THEN AND ELSE WHERE) EXCEPT !.addedClause = TRUE]

\* the block between the WHEREAND and END WHEREAND comments
WHEREAND(o) ==
    [Write(o, IF o.haveWhere THEN AND ELSE WHERE)
        EXCEPT !.haveWhere = TRUE, !.addedClause = TRUE]

\* the empty-pattern block writing the rule without its newline
EmptyBlock_NoNewline(o, vr) ==
    IF vr # <<>> THEN Write(WHEREAND(o), vr) ELSE o

\* pattern == "": select all visible objects
EmptyBlock(o, vr) ==
    IF vr # <<>> THEN Write(WHEREAND(o), vr \o NL) ELSE o

\* namebuf after  if namebuf.Len() > 2 { fmt.Fprint(namebuf, ")$") ... }
CloseBuf(b) == IF Len(b) > 2 THEN b \o CLOSE ELSE b

\* the name predicate matching namevar on both sides of the OR
NamePredicate_AltIsName(o, nb, nv, av) ==
    IF av # <<>>
    THEN Write(o, <<"(">> \o nv \o OPERATOR \o stringLiteral(nb)
                  \o OR \o nv \o OPERATOR \o stringLiteral(nb) \o <<")">> \o NL)
    ELSE Write(o, nv \o OPERATOR \o stringLiteral(nb) \o NL)

\* the name predicate, with or without altnamevar
NamePredicate(o, nb, nv, av) ==
    IF av # <<>>
    THEN Write(o, <<"(">> \o nv \o OPERATOR \o stringLiteral(nb)
                  \o OR \o av \o OPERATOR \o stringLiteral(nb) \o <<")">> \o NL)
    ELSE Write(o, nv \o OPERATOR \o stringLiteral(nb) \o NL)

\* if namebuf.Len() > 2 { ... }, given the closed namebuf
NameBlock(o, nb, nv, av) ==
    IF Len(nb) > 2 /\ nb # STARREGEX THEN NamePredicate(WHEREAND(o), nb, nv, av) ELSE o

\* the schema block falling back to the visibility rule whenever it emits no
\* schema predicate
SchemaBlock_VisibleUnlessSchema(o, sb, sv, vr) ==
    IF Len(sb) > 2 /\ sb # STARREGEX /\ sv # <<>>
    THEN Write(WHEREAND(o), sv \o OPERATOR \o stringLiteral(sb) \o NL)
    ELSE IF vr # <<>> THEN Write(WHEREAND(o), vr \o NL) ELSE o

\* the schema block writing the visibility rule without WHEREAND
SchemaBlock_SilentVisibility(o, sb, sv, vr) ==
    IF Len(sb) > 2
    THEN IF sb # STARREGEX /\ sv # <<>>
         THEN Write(WHEREAND(o), sv \o OPERATOR \o stringLiteral(sb) \o NL)
         ELSE o
    ELSE IF vr # <<>> THEN Write(o, AND \o vr \o NL) ELSE o

\* if schemabuf.Len() > 2 { ... } else { ... }, given the closed schemabuf
SchemaBlock(o, sb, sv, vr) ==
    IF Len(sb) > 2
    THEN IF sb # STARREGEX /\ sv # <<>>
         THEN Write(WHEREAND(o), sv \o OPERATOR \o stringLiteral(sb) \o NL)
         ELSE o
    ELSE IF vr # <<>> THEN Write(WHEREAND(o), vr \o NL) ELSE o

----------------------------------------------------------------------------
(* Inputs *)

PatAlphabet == {"a", "B", "*", "?", ".", "$", "\"", "+"}

FooBar == <<"\"", "F", "o", "o", "\"", ".", "B", "a", "r">>

Foo == <<"f", "o", "o">>

AbCd == <<"a", "b", ".", "c", "d">>

StarDotStar == <<"*", ".", "*">>

Star == <<"*">>

QuestionDollar == <<"?", "x", "$">>

EAcute == <<"xC3", "xA9">>

QuotedEAcute == <<"\"", "\"", "xC3", "xA9", "\"">>

QuotedQuote == <<"\"", "a", "\"", "\"">>

CantPat == <<"c", "'", "n", "'">>

\* a continuation byte with no lead byte before it
LoneCont == <<"xA9", "a">>

\* a quoted lead byte with no continuation byte after it
QuotedLead == <<"\"", "a", "xC3">>

\* a schema and a name, the pattern ending inside quotes
AbCdeQuote == <<"a", "b", ".", "c", "d", "e", "\"">>

Examples ==
    {FooBar, Foo, AbCd, StarDotStar, Star, QuestionDollar, EAcute, QuotedEAcute,
     QuotedQuote, CantPat, LoneCont, QuotedLead, AbCdeQuote}

Patterns == SeqsUpTo(PatAlphabet, MaxLen) \cup Examples

\* the patterns of chained calls
ChainPatterns == {<<>>, FooBar, AbCd, Star, QuestionDollar}

SchemaVars == {<<>>, <<"s">>}

NameVars == {<<"n">>}

AltNameVars == {<<>>, <<"t">>}

VisibilityRules == {<<>>, <<"v">>}

TextAlphabet == {"a", "'", "\\", "\"", "\n", "xC3", "xA9"}

Cant == <<"c", "a", "n", "'", "t">>

Texts == SeqsUpTo(TextAlphabet, MaxText) \cup {Cant}

----------------------------------------------------------------------------
(* State machine *)

NoLocals ==
    /\ pattern = <<>> /\ haveWhere = FALSE /\ forceEscape = FALSE
    /\ schemavar = <<>> /\ namevar = <<>> /\ altnamevar = <<>> /\ visibilityrule = <<>>
    /\ addedClause = FALSE /\ schemabuf = <<>> /\ namebuf = <<>>
    /\ i = 0 /\ inquotes = FALSE

Init ==
    /\ w = <<>>
    /\ NoLocals
    /\ pc = "idle"
    /\ callerHaveWhere \in BOOLEAN
    /\ startWhere = callerHaveWhere
    /\ mark = 0
    /\ calls = 0
    /\ s = <<>> /\ lit = <<>> /\ qpc = "in"

\* the current output state and scan state
Out == [w |-> w, haveWhere |-> haveWhere, addedClause |-> addedClause]

Cur == [i |-> i, inquotes |-> inquotes, schemabuf |-> schemabuf, namebuf |-> namebuf]

\* entry of processSQLNamePattern up to the call of parsePattern; the whole
\* function when the pattern is empty
Call(Pats) ==
    /\ pc = "idle"
    /\ calls < MaxCalls
    /\ \E p \in Pats, fe \in BOOLEAN, sv \in SchemaVars, nv \in NameVars,
          av \in AltNameVars, vr \in VisibilityRules :
          /\ pattern' = p /\ forceEscape' = fe /\ schemavar' = sv /\ namevar' = nv
          /\ altnamevar' = av /\ visibilityrule' = vr
          /\ mark' = Len(w)
          /\ i' = 0 /\ inquotes' = FALSE /\ schemabuf' = <<>>
          /\ LET o == [w |-> w, haveWhere |-> callerHaveWhere, addedClause |-> FALSE]
             IN  IF p = <<>>
                 THEN LET e == EmptyBlock(o, vr)
                      IN  /\ w' = e.w /\ haveWhere' = e.haveWhere
                          /\ addedClause' = e.addedClause
                          /\ namebuf' = <<>> /\ pc' = "done"
                 ELSE /\ w' = w /\ haveWhere' = o.haveWhere /\ addedClause' = FALSE
                      /\ namebuf' = PREFIX /\ pc' = "scan"
    /\ UNCHANGED <<callerHaveWhere, startWhere, calls>>
    /\ UNCHANGED quoteVars

Scanning == pc = "scan" /\ LoopCond(i, Len(pattern))

\* the buffers and cursor after one iteration of parsePattern's loop
Step(st) ==
    LET n == LoopIncr(st)
    IN  /\ i' = n.i /\ inquotes' = n.inquotes
        /\ schemabuf' = n.schemabuf /\ namebuf' = n.namebuf
        /\ UNCHANGED <<w, pattern, haveWhere, forceEscape, schemavar, namevar,
                       altnamevar, visibilityrule, addedClause, pc, callerHaveWhere,
                       startWhere, mark, calls>>
        /\ UNCHANGED quoteVars

ScanQuote ==
    /\ Scanning
    /\ Which(pattern, Cur) = "quote"
    /\ Step(CaseQuote(pattern, Cur))

ScanUpper ==
    /\ Scanning
    /\ Which(pattern, Cur) = "upper"
    /\ Step(CaseUpper(pattern, Cur))

ScanStar ==
    /\ Scanning
    /\ Which(pattern, Cur) = "star"
    /\ Step(CaseStar(pattern, Cur))

ScanQuestion ==
    /\ Scanning
    /\ Which(pattern, Cur) = "question"
    /\ Step(CaseQuestion(pattern, Cur))

ScanDot ==
    /\ Scanning
    /\ Which(pattern, Cur) = "dot"
    /\ Step(CaseDot(pattern, Cur))

ScanDollar ==
    /\ Scanning
    /\ Which(pattern, Cur) = "dollar"
    /\ Step(CaseDollar(pattern, Cur))

ScanDefault ==
    /\ Scanning
    /\ Which(pattern, Cur) = "default"
    /\ Step(CaseDefault(pattern, forceEscape, Cur))

\* parsePattern has returned: the rest of processSQLNamePattern
Finish ==
    /\ pc = "scan"
    /\ ~LoopCond(i, Len(pattern))
    /\ LET nb == CloseBuf(namebuf)
           sb == CloseBuf(schemabuf)
           o1 == NameBlock(Out, nb, namevar, altnamevar)
           o2 == SchemaBlock(o1, sb, schemavar, visibilityrule)
       IN  /\ namebuf' = nb /\ schemabuf' = sb
           /\ w' = o2.w /\ haveWhere' = o2.haveWhere /\ addedClause' = o2.addedClause
    /\ pc' = "done"
    /\ UNCHANGED <<pattern, forceEscape, schemavar, namevar, altnamevar, visibilityrule,
                   i, inquotes, callerHaveWhere, startWhere, mark, calls>>
    /\ UNCHANGED quoteVars

DropLocals ==
    /\ pattern' = <<>> /\ haveWhere' = FALSE /\ forceEscape' = FALSE
    /\ schemavar' = <<>> /\ namevar' = <<>> /\ altnamevar' = <<>>
    /\ visibilityrule' = <<>> /\ addedClause' = FALSE
    /\ schemabuf' = <<>> /\ namebuf' = <<>> /\ i' = 0 /\ inquotes' = FALSE

\* the call returns and the caller begins a new query on an empty sink
Return ==
    /\ pc = "done"
    /\ DropLocals
    /\ pc' = "idle"
    /\ w' = <<>> /\ mark' = 0 /\ calls' = 0
    /\ callerHaveWhere' \in BOOLEAN
    /\ startWhere' = callerHaveWhere'
    /\ UNCHANGED quoteVars

\* the call returns and the caller goes on with the same sink: the next call
\* is given haveWhere = (previous haveWhere OR previous addedClause)
ChainReturn ==
    /\ pc = "done"
    /\ DropLocals
    /\ pc' = "idle"
    /\ callerHaveWhere' = (callerHaveWhere \/ addedClause)
    /\ calls' = calls + 1
    /\ mark' = Len(w)
    /\ UNCHANGED <<w, startWhere>>
    /\ UNCHANGED quoteVars

Scan ==
    \/ ScanQuote \/ ScanUpper \/ ScanStar \/ ScanQuestion
    \/ ScanDot \/ ScanDollar \/ ScanDefault

Next == Call(Patterns) \/ Scan \/ Finish \/ Return

\* single calls of processSQLNamePattern, each on an empty sink
Spec == Init /\ [][Next]_vars

ChainNext == Call(ChainPatterns) \/ Scan \/ Finish \/ ChainReturn

\* up to MaxCalls calls chained on one sink
SpecChain == Init /\ [][ChainNext]_vars

QuoteInit ==
    /\ w = <<>> /\ NoLocals /\ pc = "idle"
    /\ callerHaveWhere = FALSE /\ startWhere = FALSE /\ mark = 0 /\ calls = 0
    /\ s \in Texts /\ lit = <<>> /\ qpc = "in"

Quote ==
    /\ qpc = "in"
    /\ lit' = stringLiteral(s)
    /\ qpc' = "out"
    /\ UNCHANGED s
    /\ UNCHANGED callVars

QuoteNext == Quote

\* stringLiteral applied to every text of Texts
SpecQuote == QuoteInit /\ [][QuoteNext]_vars

----------------------------------------------------------------------------
(* Reading the sink *)

\* what the current call has appended to the sink
Appended == From(w, mark + 1)

\* the prefix the call's first predicate gets from the haveWhere it was given
FirstPrefix == IF callerHaveWhere THEN AND ELSE WHERE

\* the second line of a name predicate with altnamevar
ORLINE == Tail(OR)

\* the positions of t at which a line starts
LineStarts(t) ==
    IF t = <<>> THEN {} ELSE {1} \cup {k + 1 : k \in {j \in 1..(Len(t) - 1) : t[j] = "\n"}}

LinesWith(t, p) == {k \in LineStarts(t) : StartsWithAt(t, k, p)}

\* the call's last line is the visibility rule
VisibilityEmitted ==
    /\ visibilityrule # <<>>
    /\ \/ Appended = FirstPrefix \o visibilityrule \o NL
       \/ EndsWith(Appended, NL \o AND \o visibilityrule \o NL)

\* the call's last line is a predicate on schemavar
SchemaEmitted ==
    /\ schemavar # <<>>
    /\ LET line == schemavar \o OPERATOR \o stringLiteral(schemabuf) \o NL
       IN  \/ Appended = FirstPrefix \o line
           \/ EndsWith(Appended, NL \o AND \o line)

\* the positions of the `.` characters of p that an even number of `"`
\* characters precede
UnquotedDots(p) ==
    {k \in 1..Len(p) :
        /\ p[k] = "."
        /\ Cardinality({j \in 1..(k - 1) : p[j] = "\""}) % 2 = 0}

\* the regex text parsePattern writes for t, without the `^(` it starts with
Translate(t, fe) == From(parsePattern(t, fe).namebuf, Len(PREFIX) + 1)

ScanDone == pc = "scan" /\ ~LoopCond(i, Len(pattern))

CountQuotes(t) == Cardinality({k \in 1..Len(t) : t[k] = "'"})

\* every `'` of t is one of two adjacent `'`
RECURSIVE Paired(_)
Paired(t) ==
    IF t = <<>> THEN TRUE
    ELSE IF Head(t) = "'" THEN Len(t) >= 2 /\ t[2] = "'" /\ Paired(Tail(Tail(t)))
    ELSE Paired(Tail(t))

\* t with every two adjacent `'` read as one
RECURSIVE Collapse(_)
Collapse(t) ==
    IF t = <<>> THEN <<>>
    ELSE IF Head(t) = "'" /\ Len(t) >= 2 /\ t[2] = "'"
         THEN <<"'">> \o Collapse(Tail(Tail(t)))
    ELSE <<Head(t)>> \o Collapse(Tail(t))

----------------------------------------------------------------------------
(* Claims *)

\* C1: in a chain of calls on one sink begun with haveWhere = false, the
\* first predicate written starts with "WHERE " and every later predicate,
\* of the same call or a later one, starts with "  AND "; the sink never
\* holds more than one "WHERE " prefix.
C1_WhereOnceThenAnd ==
    startWhere = FALSE =>
        /\ w # <<>> => StartsWith(w, WHERE)
        /\ \A k \in LineStarts(w) \ {1} :
              StartsWithAt(w, k, AND) \/ StartsWithAt(w, k, ORLINE)
        /\ Cardinality(LinesWith(w, WHERE)) <= 1

\* C1 witness: a second call has added to a sink in which the first call
\* wrote two predicates.
C1_Witness ==
    /\ startWhere = FALSE /\ calls = 1 /\ pc = "done"
    /\ addedClause /\ Len(w) > mark
    /\ Cardinality(LinesWith(SubSeq(w, 1, mark), AND)) = 1
    /\ Cardinality(LinesWith(w, AND)) >= 2

\* C2 as claimed: for a pattern with exactly one unquoted `.`, parsePattern
\* leaves in schemabuf `^(` and the translation of the text before the `.`,
\* and in namebuf `^(` and the translation of the text after it.
C2_AsClaimed ==
    (ScanDone /\ Cardinality(UnquotedDots(pattern)) = 1) =>
        LET k == CHOOSE d \in UnquotedDots(pattern) : TRUE
        IN  /\ schemabuf = PREFIX \o Translate(SubSeq(pattern, 1, k - 1), forceEscape)
            /\ namebuf = PREFIX \o Translate(From(pattern, k + 1), forceEscape)

\* C3 as claimed: for a non-empty pattern with no unquoted `.`, schemabuf
\* stays empty and the call emits no schema predicate.
C3_AsClaimed ==
    (pc = "done" /\ pattern # <<>> /\ UnquotedDots(pattern) = {}) =>
        schemabuf = <<>> /\ ~SchemaEmitted

\* C4 as claimed, in the calls without a visibility rule: the pattern `*` or
\* `*.*` makes the call write nothing and return addedClause = false.
C4_AsClaimed ==
    (pc = "done" /\ pattern \in {Star, StarDotStar} /\ visibilityrule = <<>>) =>
        Len(w) = mark /\ ~addedClause

\* C5 as claimed: the pattern "Foo".Bar yields the schema fragment ^(Foo)$
\* and the name fragment ^(bar)$.
C5_AsClaimed ==
    (pc = "done" /\ pattern = FooBar) =>
        /\ schemabuf = <<"^", "(", "F", "o", "o", ")", "$">>
        /\ namebuf = <<"^", "(", "b", "a", "r", ")", "$">>

\* C6: for the empty pattern the call writes exactly the line
\* "WHERE <visibilityrule>\n" (haveWhere false) or "  AND <visibilityrule>\n"
\* (haveWhere true) and returns true when visibilityrule is non-empty, writes
\* nothing and returns false when it is empty, and never runs the parser.
C6_EmptyPattern ==
    (pc = "done" /\ pattern = <<>>) =>
        /\ visibilityrule # <<>> =>
              /\ Appended = (IF callerHaveWhere THEN AND ELSE WHERE) \o visibilityrule
                            \o <<"\n">>
              /\ addedClause
        /\ visibilityrule = <<>> => Len(w) = mark /\ ~addedClause
        /\ namebuf = <<>> /\ schemabuf = <<>> /\ i = 0 /\ ~inquotes

\* C6 witness: an empty-pattern call given haveWhere = true and a rule.
C6_Witness ==
    pc = "done" /\ pattern = <<>> /\ visibilityrule # <<>> /\ callerHaveWhere

\* C7 as claimed: for a non-empty pattern with a visibility rule, the rule is
\* emitted if and only if the call emits no schema predicate.
C7_AsClaimed ==
    (pc = "done" /\ pattern # <<>> /\ visibilityrule # <<>>) =>
        (VisibilityEmitted <=> ~SchemaEmitted)

\* C7 amended: for a non-empty pattern with a visibility rule, the rule is
\* emitted if and only if the scan left schemabuf with nothing after `^(`
\* (empty, or only the prefix); it is never emitted together with a schema
\* predicate; a schemabuf that has text but is ^(.*)$, or an empty
\* schemavar, makes the call emit neither.
C7_VisibilityIffNoSchemaText ==
    (pc = "done" /\ pattern # <<>> /\ visibilityrule # <<>>) =>
        /\ VisibilityEmitted <=> Len(schemabuf) <= 2
        /\ ~(VisibilityEmitted /\ SchemaEmitted)
        /\ (Len(schemabuf) > 2 /\ (schemabuf = STARREGEX \/ schemavar = <<>>)) =>
              ~VisibilityEmitted /\ ~SchemaEmitted

\* C7 witness: a schema fragment with text and no schemavar: neither the
\* schema predicate nor the visibility rule is written.
C7_Witness ==
    /\ pc = "done" /\ pattern # <<>> /\ visibilityrule # <<>>
    /\ Len(schemabuf) > 2 /\ schemavar = <<>>
    /\ ~VisibilityEmitted

\* C8: an emitted name predicate is, with altnamevar, the parenthesized
\* two-line disjunction on namevar and altnamevar with the same literal on
\* both sides, and without altnamevar the single predicate on namevar.
C8_NamePredicateText ==
    (pc = "done" /\ Len(namebuf) > 2 /\ namebuf # STARREGEX) =>
        LET l == stringLiteral(namebuf)
            op == <<" ">> \o <<"O", "P", "E", "R", "A", "T", "O", "R">>
                  \o <<"(", "p", "g", "_", "c", "a", "t", "a", "l", "o", "g", ".", "~", ")">>
                  \o <<" ">>
            or == <<"\n">> \o <<" ", " ", " ", " ", " ", " ", " ", " ">> \o <<"O", "R", " ">>
            text == IF altnamevar # <<>>
                    THEN <<"(">> \o namevar \o op \o l \o or \o altnamevar \o op \o l
                         \o <<")", "\n">>
                    ELSE namevar \o op \o l \o <<"\n">>
            rest == From(Appended, Len(FirstPrefix \o text) + 1)
        IN  /\ StartsWith(Appended, FirstPrefix \o text)
            /\ rest = <<>> \/ StartsWith(rest, AND)

\* C8 witness: a name predicate written with altnamevar.
C8_Witness ==
    /\ pc = "done" /\ Len(namebuf) > 2 /\ namebuf # STARREGEX
    /\ altnamevar # <<>> /\ Len(w) > mark

\* C9: a call returns addedClause = true if and only if it appended to the
\* sink; returning false it leaves the sink as it was, returning true it
\* only appends and what it appended ends with a newline; the sink does not
\* change before the call's last step.
C9_AddedIffWritten ==
    [][/\ pc' = "scan" => w' = w
       /\ (pc # "done" /\ pc' = "done") =>
             /\ addedClause' <=> (w' # w)
             /\ StartsWith(w', w)
             /\ addedClause' => EndsWith(w', NL)]_vars

\* C9 witness: a call that appended to a non-empty sink and returned true.
C9_Witness == pc = "done" /\ addedClause /\ mark > 0 /\ Len(w) > mark

\* C10: stringLiteral returns E' ... ' in which the single quotes between the
\* delimiters are exactly the input's single quotes, each doubled, and the
\* text with each pair read as one quote is the backslash-escaped input;
\* can't becomes E'can''t'.
C10_StringLiteral ==
    qpc = "out" =>
        /\ Len(lit) >= 3
        /\ StartsWith(lit, <<"E", "'">>)
        /\ lit[Len(lit)] = "'"
        /\ LET body == SubSeq(lit, 3, Len(lit) - 1)
           IN  /\ Paired(body)
               /\ CountQuotes(body) = 2 * CountQuotes(s)
               /\ Collapse(body) = QuoteFrom(s, 1)
        /\ s = Cant => lit = <<"E", "'", "c", "a", "n", "'", "'", "t", "'">>

\* C10 witness: stringLiteral has returned for can't.
C10_Witness == qpc = "out" /\ s = Cant /\ CountQuotes(lit) = 4

\* C11: every scan step reads the pattern only at indexes inside it, moves
\* the cursor strictly forward and leaves it at most two past the pattern's
\* end, so a call makes at most len(pattern) steps; the texts handed to
\* stringLiteral are sliced inside their bounds; no step raises an error.
C11_InRange ==
    /\ pc = "scan" => i \in 0..(Len(pattern) + 2)
    /\ (pc = "scan" /\ LoopCond(i, Len(pattern))) =>
          IndexesRead(pattern, i) \subseteq 0..(Len(pattern) - 1)
    /\ pc = "done" =>
          /\ Len(QuoteToASCII(namebuf)) >= 2
          /\ Len(QuoteToASCII(schemabuf)) >= 2

C11_Advances == (pc = "scan" /\ pc' = "scan") => i' > i

C11_TerminatesNoPanic == [](C11_InRange) /\ [][C11_Advances]_vars

\* C11 witness: a call has returned for a pattern that ended inside quotes
\* with the cursor past the pattern's end.
C11_Witness == pc = "done" /\ pattern # <<>> /\ inquotes /\ i > Len(pattern)

\* the number of places of t that hold the character c
Count(t, c) == Cardinality({k \in 1..Len(t) : t[k] = c})

\* C12 as claimed: every `$` of the pattern is written to the fragment as
\* `\$`: in a pattern without `.`, whose name fragment is never moved away,
\* namebuf ends with as many `$` as the pattern has, each after a backslash.
C12_AsClaimed ==
    (ScanDone /\ Count(pattern, ".") = 0) =>
        /\ Count(namebuf, "$") = Count(pattern, "$")
        /\ \A k \in 1..Len(namebuf) :
              namebuf[k] = "$" => (k > 1 /\ namebuf[k - 1] = "\\")

\* the bytes of the character(s) the iteration at cursor k handles: the two
\* quotes of a doubled quote inside quotes, else the encoded length of the
\* character that starts at k
HandledWidth(p, k, inq) ==
    IF p[k + 1] = "\"" /\ inq /\ NextByte(p, k) = "\"" THEN 2 ELSE DecodeRune(p, k).n

\* C13 as claimed: every scan step advances the cursor by exactly the encoded
\* length of the character it handled, so that the next step handles the
\* character right after it.
C13_AsClaimed ==
    [][(pc = "scan" /\ pc' = "scan" /\ i' # i) =>
          i' = i + HandledWidth(pattern, i, inquotes)]_vars

\* C14 as claimed: inside quotes, a `"` followed by another `"` appends
\* exactly one `"` to namebuf, consumes the two quotes and stays inside
\* quotes; any other `"` only toggles inquotes and appends nothing.
C14_AsClaimed ==
    [][(pc = "scan" /\ pc' = "scan" /\ i' # i /\ pattern[i + 1] = "\"") =>
          IF inquotes /\ NextByte(pattern, i) = "\""
          THEN /\ namebuf' = namebuf \o <<"\"">>
               /\ inquotes'
               /\ i' = i + 2
          ELSE /\ inquotes' = ~inquotes
               /\ namebuf' = namebuf]_vars

\* the k-th largest element of a set of numbers
RECURSIVE Largest(_, _)
Largest(S, k) ==
    LET m == CHOOSE x \in S : \A y \in S : y <= x
    IN  IF k = 1 THEN m ELSE Largest(S \ {m}, k - 1)

\* C15 as claimed: for a pattern with several unquoted `.`, the scan leaves
\* in schemabuf `^(` and the translation of the text between the last two of
\* them, and in namebuf `^(` and the translation of the text after the last.
C15_AsClaimed ==
    (ScanDone /\ Cardinality(UnquotedDots(pattern)) >= 2) =>
        LET last == Largest(UnquotedDots(pattern), 1)
            prev == Largest(UnquotedDots(pattern), 2)
        IN  /\ schemabuf
                 = PREFIX \o Translate(SubSeq(pattern, prev + 1, last - 1), forceEscape)
            /\ namebuf = PREFIX \o Translate(From(pattern, last + 1), forceEscape)

\* the bytes at cursor k of p are a whole character: an ASCII byte, or a
\* lead byte with its continuation byte
WholeCharAt(p, k) ==
    \/ p[k + 1] \notin HighBytes
    \/ p[k + 1] \in LeadBytes /\ k + 2 <= Len(p) /\ p[k + 2] \in ContBytes

\* the character at cursor k of p is an ordinary one: not `"`, not an upper
\* case letter, not `*`, `?`, `.` or `$`
OrdinaryAt(p, k) ==
    /\ WholeCharAt(p, k)
    /\ p[k + 1] \notin {"\"", "*", "?", ".", "$"}
    /\ \A u \in 1..Len(UpperLetters) : UpperLetters[u] # p[k + 1]

\* C16 as claimed: the step that handles an ordinary character outside quotes
\* appends the character itself to namebuf, after a backslash exactly when
\* forceEscape is set and the character is one of | * + ? ( ) [ ] { } . ^ $ \
C16_AsClaimed ==
    [][(pc = "scan" /\ pc' = "scan" /\ i' # i /\ ~inquotes /\ OrdinaryAt(pattern, i)) =>
          LET ch == pattern[i + 1]
              char == IF ch \in HighBytes THEN <<ch, pattern[i + 2]>> ELSE <<ch>>
              special == ch \in {"|", "*", "+", "?", "(", ")", "[", "]", "{", "}",
                                 ".", "^", "$", "\\"}
          IN  namebuf' = namebuf \o (IF forceEscape /\ special THEN <<"\\">> ELSE <<>>)
                         \o char]_vars

\* C16 restricted to one-byte characters
C16_AsciiOnly ==
    [][(pc = "scan" /\ pc' = "scan" /\ i' # i /\ ~inquotes /\ OrdinaryAt(pattern, i)
        /\ pattern[i + 1] \notin HighBytes) =>
          namebuf' = namebuf
                     \o (IF forceEscape /\ pattern[i + 1] \in SPECIAL THEN <<"\\">> ELSE <<>>)
                     \o <<pattern[i + 1]>>]_vars

\* the places of t at which a string literal ends: a `'` that ends the line
\* or is followed by the `)` that ends it
LiteralEnds(t) ==
    {k \in 1..(Len(t) - 1) :
        /\ t[k] = "'"
        /\ \/ t[k + 1] = "\n"
           \/ k + 2 <= Len(t) /\ t[k + 1] = ")" /\ t[k + 2] = "\n"}

\* C17: every literal the call writes after OPERATOR(pg_catalog.~) begins
\* with E'^( and ends with )$', also for a pattern that ends inside quotes;
\* namebuf always begins with ^( and schemabuf, when not empty, too.
C17_Anchored ==
    /\ pc \in {"scan", "done"} /\ pattern # <<>> =>
          /\ StartsWith(namebuf, <<"^", "(">>)
          /\ schemabuf = <<>> \/ StartsWith(schemabuf, <<"^", "(">>)
    /\ pc = "done" =>
          /\ \A k \in 1..Len(Appended) :
                StartsWithAt(Appended, k, OPERATOR) =>
                    StartsWithAt(Appended, k + Len(OPERATOR), <<"E", "'", "^", "(">>)
          /\ \A k \in LiteralEnds(Appended) :
                k >= 3 /\ Appended[k - 2] = ")" /\ Appended[k - 1] = "$"
          /\ Cardinality(LiteralEnds(Appended))
                = Cardinality({k \in 1..Len(Appended) : StartsWithAt(Appended, k, OPERATOR)})

\* C17 witness: a call for a pattern that ended inside quotes has written a
\* name predicate and a schema predicate.
C17_Witness ==
    /\ pc = "done" /\ inquotes
    /\ Len(namebuf) > 2 /\ namebuf # STARREGEX
    /\ SchemaEmitted
    /\ Cardinality(LiteralEnds(Appended)) >= 2

====
